---- MODULE Spec2Model ----
(***************************************************************************)
(* Blackjack server (server.py), wire codec (protocol.py) and the client's *)
(* mirror functions (client.py), as a state machine.                       *)
(*                                                                         *)
(* One TCP session of GameServer.handle_client is modelled step by step:   *)
(* every conn.recv and every conn.sendall is one step.  Packets are byte   *)
(* sequences built by the pack_* operators and read by the unpack_*        *)
(* operators, which follow struct.pack / struct.unpack field by field.     *)
(***************************************************************************)
EXTENDS Integers, Sequences, FiniteSets, TLC

VARIABLES
    pc,            \* position of handle_client / play_round
    num_rounds,    \* handle_client: num_rounds decoded from the Request (-1: not yet bound)
    i,             \* handle_client: loop variable of "for i in range(num_rounds)"
    deck,          \* play_round: deck (list; pop() takes the last element)
    player_cards,  \* play_round: player_cards
    dealer_cards,  \* play_round: dealer_cards
    k,             \* play_round: number of initial cards already sent (for-loop 169-172)
    sent,          \* packets handed to conn.sendall during the current round
    ended,         \* how play_round returned: "no", "bust" (202), "settled" (246)
    conn_open,     \* FALSE once conn.close() ran (158)
    peer_open,     \* FALSE once the client has closed its end of the connection
    buf,           \* codec specification: the buffer handed to the decoders
    res,           \* codec specification: result of the last decoder applied
    msg,           \* codec specification: the message handed to the encoder
    last_data,     \* play_round: data, the buffer conn.recv(10) returned last (185)
    request_data,  \* handle_client: data, the buffer conn.recv(38) returned (137)
    threads,       \* start: the locals of the client threads that are not running now
    cur,           \* the client thread whose locals are the variables above (0: none)
    running,       \* GameServer.running (the KeyboardInterrupt of start 65-67 is not followed)
    offer,         \* broadcast_offers: msg, the datagram sent last
    shuffles,      \* the outcomes random.shuffle has in the runs that are followed
    inbox,         \* Actions the client has sent and conn.recv(10) has not returned yet
    seen,          \* client: the round whose packets it is receiving, how many it received
    applied        \* the Action play_round read last from the stream, and the round it read it in

\* the variables of the server outside one client thread
server_vars == <<threads, cur, running, offer, shuffles>>

\* the byte stream from the client and what the client has received
stream_vars == <<inbox, seen, applied>>

vars == <<pc, num_rounds, i, deck, player_cards, dealer_cards, k, sent, ended,
          conn_open, peer_open, buf, res, msg, last_data, request_data,
          threads, cur, running, offer, shuffles, inbox, seen, applied>>

----------------------------------------------------------------------------
(* Bounds of the model *)

\* Request packets ask for 0..MaxRounds rounds (the byte allows 0..255).
MaxRounds == 2
\* random.shuffle is sampled by the affine permutations j -> Stride*j + Offset
\* (mod 52) with Stride in 1..MaxStride coprime to 52 and Offset in 0..MaxOffset.
MaxStride == 51
MaxOffset == 51
\* The decoders are applied to buffers whose length is within MaxExtra of one of
\* the four packet sizes (and to the empty buffer).
MaxExtra == 1
\* Names handed to the encoders run up to MaxNameOver characters past the
\* 32-byte name field.
MaxNameOver == 2
\* calculate_hand on its own is applied to every hand of 1..MaxHand cards.
MaxHand == 3

----------------------------------------------------------------------------
(* server.py constants *)

SUITS == 0..3
RANKS == 1..13

STATUS_ACTIVE == 0
STATUS_TIE == 1
STATUS_LOSS == 2
STATUS_WIN == 3

(* protocol.py constants.  MAGIC_COOKIE = 0xabcddcba does not fit the      *)
(* checker's 32-bit signed integers, so the 'I' field is kept as its two   *)
(* big-endian 16-bit halves.                                               *)
MAGIC_COOKIE_HI == 43981   \* 0xabcd
MAGIC_COOKIE_LO == 56506   \* 0xdcba
MSG_TYPE_OFFER == 2
MSG_TYPE_REQUEST == 3
MSG_TYPE_PAYLOAD == 4

\* struct.calcsize of the four formats
SIZE_OFFER == 39      \* '!IBH32s'
SIZE_REQUEST == 38    \* '!IBB32s'
SIZE_ACTION == 10     \* '!IB5s'
SIZE_STATE == 9       \* '!IBBHB'
NAME_LEN == 32

----------------------------------------------------------------------------
(* Byte helpers (struct, big endian) *)

U16(hi, lo) == hi * 256 + lo
HiByte(n) == (n \div 256) % 256
LoByte(n) == n % 256

CookieBytes == <<HiByte(MAGIC_COOKIE_HI), LoByte(MAGIC_COOKIE_HI),
                 HiByte(MAGIC_COOKIE_LO), LoByte(MAGIC_COOKIE_LO)>>

\* the 'I' field at the front of a buffer, as <<high half, low half>>
CookieOf(data) == <<U16(data[1], data[2]), U16(data[3], data[4])>>
MAGIC_COOKIE == <<MAGIC_COOKIE_HI, MAGIC_COOKIE_LO>>

Zeros(n) == [j \in 1..n |-> 0]

\* str.encode('utf-8') of one character (a code point)
EncodeChar(c) ==
    IF c < 128 THEN <<c>>
    ELSE IF c < 2048 THEN <<192 + (c \div 64), 128 + (c % 64)>>
    ELSE IF c < 65536
         THEN <<224 + (c \div 4096), 128 + ((c \div 64) % 64), 128 + (c % 64)>>
    ELSE <<240 + (c \div 262144), 128 + ((c \div 4096) % 64),
           128 + ((c \div 64) % 64), 128 + (c % 64)>>

\* str.encode('utf-8'): text is a sequence of code points
RECURSIVE encode_utf8(_)
encode_utf8(text) ==
    IF Len(text) = 0 THEN <<>>
    ELSE EncodeChar(text[1]) \o encode_utf8(SubSeq(text, 2, Len(text)))

\* _pad_string: encode, then truncate to length bytes or pad with zero bytes
pad_string(text, length) ==
    LET encoded == encode_utf8(text)
    IN  IF Len(encoded) > length THEN SubSeq(encoded, 1, length)
        ELSE encoded \o Zeros(length - Len(encoded))

\* str.rstrip('\x00')
RECURSIVE RStripZeros(_)
RStripZeros(s) ==
    IF Len(s) = 0 THEN s
    ELSE IF s[Len(s)] = 0 THEN RStripZeros(SubSeq(s, 1, Len(s) - 1))
    ELSE s

IsCont(b) == b >= 128 /\ b <= 191

\* bytes.decode('utf-8') succeeds (strict decoding, RFC 3629 well-formedness)
RECURSIVE Utf8Valid(_)
Utf8Valid(s) ==
    IF Len(s) = 0 THEN TRUE
    ELSE LET b == s[1]
             n == Len(s)
         IN  IF b <= 127 THEN Utf8Valid(SubSeq(s, 2, n))
             ELSE IF b >= 194 /\ b <= 223
                  THEN n >= 2 /\ IsCont(s[2]) /\ Utf8Valid(SubSeq(s, 3, n))
             ELSE IF b >= 224 /\ b <= 239
                  THEN /\ n >= 3 /\ IsCont(s[2]) /\ IsCont(s[3])
                       /\ (b = 224 => s[2] >= 160)
                       /\ (b = 237 => s[2] <= 159)
                       /\ Utf8Valid(SubSeq(s, 4, n))
             ELSE IF b >= 240 /\ b <= 244
                  THEN /\ n >= 4 /\ IsCont(s[2]) /\ IsCont(s[3]) /\ IsCont(s[4])
                       /\ (b = 240 => s[2] >= 144)
                       /\ (b = 244 => s[2] <= 143)
                       /\ Utf8Valid(SubSeq(s, 5, n))
             ELSE FALSE

\* bytes.decode('utf-8') of well-formed bytes: the sequence of code points
RECURSIVE Utf8Decode(_)
Utf8Decode(s) ==
    IF Len(s) = 0 THEN <<>>
    ELSE LET b == s[1]
             n == Len(s)
         IN  IF b <= 127 THEN <<b>> \o Utf8Decode(SubSeq(s, 2, n))
             ELSE IF b <= 223
                  THEN <<(b - 192) * 64 + (s[2] - 128)>> \o Utf8Decode(SubSeq(s, 3, n))
             ELSE IF b <= 239
                  THEN <<(b - 224) * 4096 + (s[2] - 128) * 64 + (s[3] - 128)>>
                       \o Utf8Decode(SubSeq(s, 4, n))
             ELSE <<(b - 240) * 262144 + (s[2] - 128) * 4096 + (s[3] - 128) * 64
                    + (s[4] - 128)>> \o Utf8Decode(SubSeq(s, 5, n))

\* _decode_string: decode, then strip the trailing NUL characters
decode_string(bytes_data) ==
    IF Utf8Valid(bytes_data)
    THEN [ok |-> TRUE, text |-> RStripZeros(Utf8Decode(bytes_data))]
    ELSE [ok |-> FALSE, text |-> <<>>]

Hittt == <<72, 105, 116, 116, 116>>
Stand == <<83, 116, 97, 110, 100>>

----------------------------------------------------------------------------
(* Packing *)

pack_offer(server_port, server_name) ==
    CookieBytes \o <<MSG_TYPE_OFFER, HiByte(server_port), LoByte(server_port)>>
                \o pad_string(server_name, NAME_LEN)

pack_request(player_name, rounds) ==
    CookieBytes \o <<MSG_TYPE_REQUEST, rounds>> \o pad_string(player_name, NAME_LEN)

pack_action(action) ==
    CookieBytes \o <<MSG_TYPE_PAYLOAD>> \o (IF action = "Hit" THEN Hittt ELSE Stand)

pack_game_state(status, rank, suit) ==
    CookieBytes \o <<MSG_TYPE_PAYLOAD, status, HiByte(rank), LoByte(rank), suit>>

----------------------------------------------------------------------------
(* Unpacking.  A raised ValueError (UnicodeDecodeError is a ValueError) is *)
(* the result [ok |-> FALSE, err |-> ...]; no field is returned with it.   *)

Raise(e) == [ok |-> FALSE, err |-> e]

unpack_offer_nocookie(data) ==
    IF Len(data) # SIZE_OFFER THEN Raise("size")
    ELSE IF data[5] # MSG_TYPE_OFFER THEN Raise("type")
    ELSE LET name == decode_string(SubSeq(data, 8, 39))
         IN  IF ~name.ok THEN Raise("utf8")
             ELSE [ok |-> TRUE, port |-> U16(data[6], data[7]), name |-> name.text]

unpack_offer(data) ==
    IF Len(data) # SIZE_OFFER THEN Raise("size")
    ELSE IF CookieOf(data) # MAGIC_COOKIE THEN Raise("cookie")
    ELSE IF data[5] # MSG_TYPE_OFFER THEN Raise("type")
    ELSE LET name == decode_string(SubSeq(data, 8, 39))
         IN  IF ~name.ok THEN Raise("utf8")
             ELSE [ok |-> TRUE, port |-> U16(data[6], data[7]), name |-> name.text]

unpack_request_notype(data) ==
    IF Len(data) # SIZE_REQUEST THEN Raise("size")
    ELSE IF CookieOf(data) # MAGIC_COOKIE THEN Raise("cookie")
    ELSE LET name == decode_string(SubSeq(data, 7, 38))
         IN  IF ~name.ok THEN Raise("utf8")
             ELSE [ok |-> TRUE, rounds |-> data[6], name |-> name.text]

unpack_request(data) ==
    IF Len(data) # SIZE_REQUEST THEN Raise("size")
    ELSE IF CookieOf(data) # MAGIC_COOKIE THEN Raise("cookie")
    ELSE IF data[5] # MSG_TYPE_REQUEST THEN Raise("type")
    ELSE LET name == decode_string(SubSeq(data, 7, 38))
         IN  IF ~name.ok THEN Raise("utf8")
             ELSE [ok |-> TRUE, rounds |-> data[6], name |-> name.text]

unpack_action_hitdefault(data) ==
    IF Len(data) # SIZE_ACTION THEN Raise("size")
    ELSE IF CookieOf(data) # MAGIC_COOKIE THEN Raise("cookie")
    ELSE IF data[5] # MSG_TYPE_PAYLOAD THEN Raise("type")
    ELSE LET action_bytes == SubSeq(data, 6, 10)
         IN  IF ~Utf8Valid(action_bytes) THEN Raise("utf8")
             ELSE IF action_bytes = Stand THEN [ok |-> TRUE, action |-> "Stand"]
             ELSE [ok |-> TRUE, action |-> "Hit"]

unpack_action(data) ==
    IF Len(data) # SIZE_ACTION THEN Raise("size")
    ELSE IF CookieOf(data) # MAGIC_COOKIE THEN Raise("cookie")
    ELSE IF data[5] # MSG_TYPE_PAYLOAD THEN Raise("type")
    ELSE LET action_bytes == SubSeq(data, 6, 10)
         IN  IF ~Utf8Valid(action_bytes) THEN Raise("utf8")
             ELSE IF action_bytes = Hittt THEN [ok |-> TRUE, action |-> "Hit"]
             ELSE [ok |-> TRUE, action |-> "Stand"]

unpack_game_state(data) ==
    IF Len(data) # SIZE_STATE THEN Raise("size")
    ELSE IF CookieOf(data) # MAGIC_COOKIE THEN Raise("cookie")
    ELSE IF data[5] # MSG_TYPE_PAYLOAD THEN Raise("type")
    ELSE [ok |-> TRUE, status |-> data[6], rank |-> U16(data[7], data[8]),
          suit |-> data[9]]

----------------------------------------------------------------------------
(* Deck and hands *)

\* get_deck before the shuffle: for r in RANKS: for s in SUITS: append (r, s)
OrderedDeck == [n \in 1..52 |-> <<((n - 1) \div 4) + 1, (n - 1) % 4>>]

RECURSIVE Gcd(_, _)
Gcd(a, b) == IF b = 0 THEN a ELSE Gcd(b, a % b)

Strides == {a \in 1..MaxStride : Gcd(a, 52) = 1}
Offsets == 0..MaxOffset

\* one outcome of random.shuffle(deck): the permutation j -> a*j + b (mod 52)
Shuffled(a, b) == [n \in 1..52 |-> OrderedDeck[((a * (n - 1) + b) % 52) + 1]]

\* list.pop(): the last element, and the list without it
Top_first(d) == d[1]
Top(d) == d[Len(d)]
Pop(d) == SubSeq(d, 1, Len(d) - 1)

CardValue_noface(rank) == IF rank = 1 THEN 1 ELSE rank
CardValue(rank) == IF rank = 1 THEN 1 ELSE IF rank > 10 THEN 10 ELSE rank

RECURSIVE BaseValue(_)
BaseValue(cards) ==
    IF Len(cards) = 0 THEN 0
    ELSE CardValue(cards[1][1]) + BaseValue(SubSeq(cards, 2, Len(cards)))

RECURSIVE CountAces(_)
CountAces(cards) ==
    IF Len(cards) = 0 THEN 0
    ELSE (IF cards[1][1] = 1 THEN 1 ELSE 0) + CountAces(SubSeq(cards, 2, Len(cards)))

\* the while loop of calculate_hand: upgrade aces while it does not bust
RECURSIVE Upgrade(_, _)
Upgrade(value, aces) ==
    IF aces > 0 /\ value + 10 <= 21 THEN Upgrade(value + 10, aces - 1) ELSE value

\* GameServer.calculate_hand
calculate_hand(cards) == Upgrade(BaseValue(cards), CountAces(cards))

----------------------------------------------------------------------------
(* What the peer of the session can make conn.recv return while it is     *)
(* connected; once it has closed, conn.recv returns the empty buffer <<>>. *)

ClientName == <<65, 108>>            \* "Al"
BadCookie(data) == <<data[1], data[2], data[3], (data[4] + 1) % 256>> \o SubSeq(data, 5, Len(data))
BadType(data) == SubSeq(data, 1, 4) \o <<data[5] + 1>> \o SubSeq(data, 6, Len(data))
Partial(data) == SubSeq(data, 1, Len(data) \div 2)

RequestInputs ==
    {pack_request(ClientName, n) : n \in 0..MaxRounds}
    \cup {BadCookie(pack_request(ClientName, 1)), BadType(pack_request(ClientName, 1)),
          Partial(pack_request(ClientName, 1))}

ActionInputs ==
    {pack_action("Hit"), pack_action("Stand"),
     CookieBytes \o <<MSG_TYPE_PAYLOAD, 72, 101, 108, 108, 111>>,     \* "Hello"
     CookieBytes \o <<MSG_TYPE_PAYLOAD, 255, 105, 116, 116, 116>>,    \* not UTF-8
     BadCookie(pack_action("Hit")), BadType(pack_action("Hit")),
     Partial(pack_action("Hit"))}

----------------------------------------------------------------------------
(* Decisions of play_round and handle_client *)

\* 149: for i in range(num_rounds)
MoreRounds_inclusive(done, n) == done <= n
MoreRounds(done, n) == done < n

\* 169: for card in player_cards (the cards sent while dealing)
InitialShown_all(player, dealer) == player \o dealer
InitialShown(player, dealer) == player

\* 180: if player_val >= 21: break
PlayerDone_strict(player_val) == player_val > 21
PlayerDone(player_val) == player_val >= 21

\* 196: if new_val > 21
IsBust_never(new_val) == FALSE
IsBust(new_val) == new_val > 21

\* 223: while dealer_val < 17
DealerMustDraw_on17(dealer_val) == dealer_val <= 17
DealerMustDraw(dealer_val) == dealer_val < 17

\* 228-239: Determine Winner
RoundStatus_tiewins(player_val, dealer_val) ==
    IF player_val > 21 THEN STATUS_LOSS
    ELSE IF dealer_val > 21 THEN STATUS_WIN
    ELSE IF player_val >= dealer_val THEN STATUS_WIN
    ELSE STATUS_LOSS
RoundStatus(player_val, dealer_val) ==
    IF player_val > 21 THEN STATUS_LOSS
    ELSE IF dealer_val > 21 THEN STATUS_WIN
    ELSE IF player_val > dealer_val THEN STATUS_WIN
    ELSE IF player_val < dealer_val THEN STATUS_LOSS
    ELSE STATUS_TIE

\* 242: last_dealer_card = dealer_cards[-1]
LastDealerCard_first(cards) == cards[1]
LastDealerCard(cards) == cards[Len(cards)]

StatePacket(status, card) == pack_game_state(status, card[1], card[2])

----------------------------------------------------------------------------
(* The session: handle_client and play_round *)

NoResult == <<"none", Raise("none")>>
NoMessage == [kind |-> "none"]
\* play_round's data before the first conn.recv(10) of the round
NoData == <<-1>>

\* nothing in the stream, the client has received nothing
StreamIdle ==
    /\ inbox = <<>>
    /\ seen = [round |-> 0, packets |-> 0]
    /\ applied = NoMessage

\* a server that runs no other client thread
ServerIdle ==
    /\ threads = <<>>
    /\ cur = 0
    /\ running = TRUE
    /\ offer = NoData
    /\ shuffles = [strides |-> Strides, offsets |-> Offsets]
    /\ StreamIdle

Init ==
    /\ pc = "handshake"
    /\ num_rounds = -1
    /\ i = 0
    /\ deck = <<>>
    /\ player_cards = <<>>
    /\ dealer_cards = <<>>
    /\ k = 0
    /\ sent = <<>>
    /\ ended = "no"
    /\ conn_open = TRUE
    /\ peer_open = TRUE
    /\ buf = <<>>
    /\ res = NoResult
    /\ msg = NoMessage
    /\ last_data = NoData
    /\ request_data = NoData
    /\ ServerIdle

\* conn.recv(n): data of a connected peer, end of stream of a closed one
Received(inputs) == IF peer_open THEN inputs ELSE {<<>>}

\* conn.sendall(msg): succeeds (TRUE); towards a closed peer it may also raise
\* BrokenPipeError / ConnectionResetError (FALSE)
SendOutcomes == IF peer_open THEN {TRUE} ELSE {TRUE, FALSE}

\* finally: conn.close()
CloseNow ==
    /\ pc' = "closed"
    /\ conn_open' = FALSE

\* the client closes its socket (client.py 117-119), at any moment
PeerClose ==
    /\ conn_open
    /\ peer_open
    /\ peer_open' = FALSE
    /\ UNCHANGED <<pc, num_rounds, i, deck, player_cards, dealer_cards, k, sent, ended,
                   conn_open, buf, res, msg, last_data, request_data>>
    /\ UNCHANGED server_vars
    /\ UNCHANGED stream_vars

\* handle_client 137-146: read and decode the Request
RecvRequest ==
    /\ pc = "handshake"
    /\ \E data \in Received(RequestInputs) :
         /\ request_data' = data
         /\ LET r == unpack_request(data)
            IN  IF data = <<>> \/ ~r.ok
                THEN CloseNow /\ UNCHANGED num_rounds
                ELSE /\ num_rounds' = r.rounds
                     /\ pc' = "rounds"
                     /\ UNCHANGED conn_open
    /\ UNCHANGED <<i, deck, player_cards, dealer_cards, k, sent, ended, peer_open,
                   buf, res, msg, last_data>>
    /\ UNCHANGED server_vars
    /\ UNCHANGED stream_vars

\* handle_client 149-151 and play_round 162-164: next round, deal four cards
StartRound ==
    /\ pc = "rounds"
    /\ MoreRounds(i, num_rounds)
    /\ \E a \in shuffles.strides, b \in shuffles.offsets :
         LET d0 == Shuffled(a, b)
             d1 == Pop(d0)
             d2 == Pop(d1)
             d3 == Pop(d2)
         IN  /\ player_cards' = <<Top(d0), Top(d1)>>
             /\ dealer_cards' = <<Top(d2), Top(d3)>>
             /\ deck' = Pop(d3)
    /\ pc' = "send_initial"
    /\ UNCHANGED <<num_rounds, i, k, sent, ended, conn_open, peer_open, buf, res, msg,
                   last_data, request_data>>
    /\ UNCHANGED server_vars
    /\ UNCHANGED stream_vars

\* play_round 169-174: one conn.sendall of the initial cards
SendInitial ==
    /\ pc = "send_initial"
    /\ \E ok \in SendOutcomes :
         IF ok
         THEN LET shown == InitialShown(player_cards, dealer_cards)
              IN  /\ sent' = Append(sent, StatePacket(STATUS_ACTIVE, shown[k + 1]))
                  /\ k' = k + 1
                  /\ pc' = IF k + 1 = Len(shown) THEN "player_turn" ELSE "send_initial"
                  /\ UNCHANGED conn_open
         ELSE CloseNow /\ UNCHANGED <<sent, k>>
    /\ UNCHANGED <<num_rounds, i, deck, player_cards, dealer_cards, ended, peer_open,
                   buf, res, msg, last_data, request_data>>
    /\ UNCHANGED server_vars
    /\ UNCHANGED stream_vars

\* play_round 176-181: head of the player loop
PlayerLoop ==
    /\ pc = "player_turn"
    /\ pc' = IF PlayerDone(calculate_hand(player_cards)) THEN "dealer" ELSE "recv_action"
    /\ UNCHANGED <<num_rounds, i, deck, player_cards, dealer_cards, k, sent, ended,
                   conn_open, peer_open, buf, res, msg, last_data, request_data>>
    /\ UNCHANGED server_vars
    /\ UNCHANGED stream_vars

\* play_round 185-213: conn.recv(10) returns one of source; decode it and act on it
ReadAction(source) ==
    /\ pc = "recv_action"
    /\ \E data \in source, ok \in SendOutcomes :
         /\ last_data' = data
         /\ LET r == unpack_action(data)
            IN  IF data = <<>> \/ ~r.ok
                THEN \* 186 break, 211-213 break
                     /\ pc' = "dealer"
                     /\ UNCHANGED <<deck, player_cards, sent, ended, conn_open>>
                ELSE IF r.action = "Hit"
                THEN IF Len(deck) = 0 \/ ~ok
                     THEN \* IndexError of deck.pop(), or sendall raised
                          CloseNow /\ UNCHANGED <<deck, player_cards, sent, ended>>
                     ELSE LET new_card == Top(deck)
                              new_val == calculate_hand(Append(player_cards, new_card))
                          IN  /\ deck' = Pop(deck)
                              /\ player_cards' = Append(player_cards, new_card)
                              /\ UNCHANGED conn_open
                              /\ IF IsBust(new_val)
                                 THEN /\ sent' = Append(sent, StatePacket(STATUS_LOSS, new_card))
                                      /\ ended' = "bust"
                                      /\ pc' = "returned"
                                 ELSE /\ sent' = Append(sent, StatePacket(STATUS_ACTIVE, new_card))
                                      /\ pc' = "player_turn"
                                      /\ UNCHANGED ended
                ELSE \* 208-209 Stand
                     /\ pc' = "dealer"
                     /\ UNCHANGED <<deck, player_cards, sent, ended, conn_open>>
    /\ UNCHANGED <<num_rounds, i, dealer_cards, k, peer_open, buf, res, msg, request_data>>
    /\ UNCHANGED server_vars

\* play_round 185-213: read one Action and act on it
RecvAction ==
    /\ ReadAction(Received(ActionInputs))
    /\ UNCHANGED stream_vars

\* 222-223: the dealer takes another card
DealerDraws_always == TRUE
DealerDraws == calculate_hand(player_cards) <= 21
               /\ DealerMustDraw(calculate_hand(dealer_cards))

\* play_round 224-225: one iteration of the dealer loop
DealerDraw_nocard ==
    /\ pc = "dealer"
    /\ DealerDraws
    /\ UNCHANGED vars

DealerDraw ==
    /\ pc = "dealer"
    /\ DealerDraws
    /\ IF Len(deck) = 0
       THEN CloseNow /\ UNCHANGED <<deck, dealer_cards>>
       ELSE /\ dealer_cards' = Append(dealer_cards, Top(deck))
            /\ deck' = Pop(deck)
            /\ UNCHANGED <<pc, conn_open>>
    /\ UNCHANGED <<num_rounds, i, player_cards, k, sent, ended, peer_open, buf, res, msg,
                   last_data, request_data>>
    /\ UNCHANGED server_vars
    /\ UNCHANGED stream_vars

\* play_round 227-246: determine the winner, send the result, return
Settle ==
    /\ pc = "dealer"
    /\ ~DealerDraws
    /\ \E ok \in SendOutcomes :
         IF ok
         THEN LET status == RoundStatus(calculate_hand(player_cards),
                                        calculate_hand(dealer_cards))
              IN  /\ sent' = Append(sent, StatePacket(status, LastDealerCard(dealer_cards)))
                  /\ ended' = "settled"
                  /\ pc' = "returned"
                  /\ UNCHANGED conn_open
         ELSE CloseNow /\ UNCHANGED <<sent, ended>>
    /\ UNCHANGED <<num_rounds, i, deck, player_cards, dealer_cards, k, peer_open,
                   buf, res, msg, last_data, request_data>>
    /\ UNCHANGED server_vars
    /\ UNCHANGED stream_vars

\* play_round has returned (202, 246): its locals are gone and the for loop of
\* handle_client (149) advances
LoopBack ==
    /\ pc = "returned"
    /\ i' = i + 1
    /\ deck' = <<>>
    /\ player_cards' = <<>>
    /\ dealer_cards' = <<>>
    /\ k' = 0
    /\ sent' = <<>>
    /\ ended' = "no"
    /\ last_data' = NoData
    /\ pc' = "rounds"
    /\ UNCHANGED <<num_rounds, conn_open, peer_open, buf, res, msg, request_data>>
    /\ UNCHANGED server_vars
    /\ UNCHANGED stream_vars

\* handle_client 153-158: all rounds played, close
Finish ==
    /\ pc = "rounds"
    /\ ~MoreRounds(i, num_rounds)
    /\ CloseNow
    /\ UNCHANGED <<num_rounds, i, deck, player_cards, dealer_cards, k, sent, ended,
                   peer_open, buf, res, msg, last_data, request_data>>
    /\ UNCHANGED server_vars
    /\ UNCHANGED stream_vars

Next ==
    \/ PeerClose
    \/ RecvRequest
    \/ StartRound
    \/ SendInitial
    \/ PlayerLoop
    \/ RecvAction
    \/ DealerDraw
    \/ Settle
    \/ LoopBack
    \/ Finish

Spec == Init /\ [][Next]_vars

----------------------------------------------------------------------------
(* Reading the packets the server has sent *)

PacketStatus(pkt) == unpack_game_state(pkt).status
PacketCard(pkt) == <<unpack_game_state(pkt).rank, unpack_game_state(pkt).suit>>
Carries(pkt, card) == unpack_game_state(pkt).ok /\ PacketCard(pkt) = card
IsTerminal(pkt) == PacketStatus(pkt) \in {STATUS_TIE, STATUS_LOSS, STATUS_WIN}
LastSent == sent[Len(sent)]

PlayerValue == calculate_hand(player_cards)
DealerValue == calculate_hand(dealer_cards)
InPlayerTurn == pc \in {"send_initial", "player_turn", "recv_action"}
InRound == pc \in {"send_initial", "player_turn", "recv_action", "dealer"}

----------------------------------------------------------------------------
\* C1: whenever play_round has sent its end-of-round result, the status of that
\* terminal packet is the one the ordered policy gives for the final player
\* value P and dealer value D: P > 21 Loss, else D > 21 Win, else P > D Win,
\* else P < D Loss, else Draw.
C1_Theorem ==
    pc = "returned" =>
        /\ Len(sent) >= 1
        /\ unpack_game_state(LastSent).ok
        /\ PlayerValue > 21 => PacketStatus(LastSent) = 2
        /\ (PlayerValue <= 21 /\ DealerValue > 21) => PacketStatus(LastSent) = 3
        /\ (PlayerValue <= 21 /\ DealerValue <= 21 /\ PlayerValue > DealerValue)
               => PacketStatus(LastSent) = 3
        /\ (PlayerValue <= 21 /\ DealerValue <= 21 /\ PlayerValue < DealerValue)
               => PacketStatus(LastSent) = 2
        /\ (PlayerValue <= 21 /\ DealerValue <= 21 /\ PlayerValue = DealerValue)
               => PacketStatus(LastSent) = 1

\* a round settled as a Draw with equal values
C1_Witness ==
    /\ pc = "returned"
    /\ ended = "settled"
    /\ PlayerValue = DealerValue
    /\ PacketStatus(LastSent) = 1

\* C2: once dealing is over (and so before the first Action of the round is
\* read) the server has sent State(Active) for the two player cards and then a
\* State packet carrying the dealer's first card.
C2_Claim ==
    pc \in {"player_turn", "recv_action", "dealer", "returned"} =>
        /\ Len(sent) >= 3
        /\ Carries(sent[1], player_cards[1]) /\ PacketStatus(sent[1]) = 0
        /\ Carries(sent[2], player_cards[2]) /\ PacketStatus(sent[2]) = 0
        /\ Carries(sent[3], dealer_cards[1])

\* C3: no packet sent before the player's turn has ended carries the dealer's
\* second card, and in a round ended by a bust on Hit no packet carries it.
C3_Theorem ==
    (InPlayerTurn \/ ended = "bust") =>
        \A n \in 1..Len(sent) : ~Carries(sent[n], dealer_cards[2])

\* a round ended by a bust after at least one earlier successful Hit
C3_Witness ==
    /\ ended = "bust"
    /\ Len(sent) >= 4

\* C4: a Hit that takes the player's value over 21 sends at once a terminal
\* State(Loss) carrying the card just dealt and ends the round; the dealer draws
\* no card and no further packet of that round is sent.
HitBusts ==
    /\ pc = "recv_action"
    /\ Len(player_cards') = Len(player_cards) + 1
    /\ calculate_hand(player_cards') > 21

C4_Step ==
    /\ HitBusts =>
          /\ player_cards' = Append(player_cards, Top(deck))
          /\ sent' = Append(sent, pack_game_state(2, Top(deck)[1], Top(deck)[2]))
          /\ pc' = "returned"
          /\ dealer_cards' = dealer_cards
    /\ (pc = "returned" /\ calculate_hand(player_cards) > 21) =>
          /\ Len(sent') <= Len(sent)
          /\ Len(dealer_cards') <= Len(dealer_cards)
          /\ Len(dealer_cards) = 2

C4_Theorem == [][C4_Step]_vars

C4_Witness ==
    /\ pc = "returned"
    /\ PlayerValue > 21
    /\ PacketStatus(LastSent) = 2
    /\ Carries(LastSent, player_cards[Len(player_cards)])

\* C5: with a player value of 21 or more at a decision step the server reads
\* no Action and goes to the dealer's turn; an Action is read only below 21.
C5_Step ==
    /\ (pc = "player_turn" /\ calculate_hand(player_cards) >= 21 /\ pc' # pc) =>
          (pc' = "dealer" /\ sent' = sent /\ player_cards' = player_cards)
    /\ pc' = "recv_action" => calculate_hand(player_cards') < 21

C5_Theorem == [][C5_Step]_vars

\* exactly 21 reached by a Hit, the server now in the dealer's turn
C5_Witness ==
    /\ pc = "dealer"
    /\ Len(player_cards) >= 3
    /\ PlayerValue = 21

\* a two-card 21: the dealer's turn is reached with only the two cards sent
C5_WitnessNatural ==
    /\ pc = "dealer"
    /\ Len(player_cards) = 2
    /\ PlayerValue = 21
    /\ Len(sent) = 2

\* C6: the dealer draws exactly when the dealer's value is below 17: every card
\* beyond the first two was drawn on a value below 17 (Ace+6 stands), and a
\* round settled through the dealer's turn ends with a dealer value of at least 17.
C6_Theorem ==
    /\ InRound \/ pc = "returned" =>
          \A n \in 2..(Len(dealer_cards) - 1) :
              calculate_hand(SubSeq(dealer_cards, 1, n)) < 17
    /\ ended = "settled" => DealerValue >= 17

\* settled after the dealer has drawn
C6_Witness ==
    /\ ended = "settled"
    /\ Len(dealer_cards) >= 4

\* the dealer stands on a soft 17 (an Ace and a 6)
C6_WitnessSoft17 ==
    /\ ended = "settled"
    /\ Len(dealer_cards) = 2
    /\ {dealer_cards[1][1], dealer_cards[2][1]} = {1, 6}

\* C7: in a round settled through the dealer's turn every card of the dealer's
\* final hand has been transmitted, in dealing order, when the result is sent.
DealerPos(j) == CHOOSE n \in 1..Len(sent) : Carries(sent[n], dealer_cards[j])

C7_Claim ==
    ended = "settled" =>
        /\ \A j \in 1..Len(dealer_cards) :
               \E n \in 1..Len(sent) : Carries(sent[n], dealer_cards[j])
        /\ \A j \in 1..(Len(dealer_cards) - 1) : DealerPos(j) <= DealerPos(j + 1)

\* C8: a completed round has sent exactly one terminal packet, as its last
\* packet, every earlier packet being Active; settled through the dealer's turn,
\* the terminal packet carries the last card of the dealer's hand.
C8_Theorem ==
    /\ InRound => \A n \in 1..Len(sent) : PacketStatus(sent[n]) = 0
    /\ pc = "returned" =>
          /\ Len(sent) >= 1
          /\ IsTerminal(LastSent)
          /\ \A n \in 1..(Len(sent) - 1) : PacketStatus(sent[n]) = 0
          /\ ended = "settled" => Carries(LastSent, dealer_cards[Len(dealer_cards)])

C8_Witness ==
    /\ pc = "returned"
    /\ ended = "settled"
    /\ Len(dealer_cards) >= 3
    /\ Len(sent) >= 4

\* C9: with a Request for n rounds and a peer that stays connected, the server
\* runs exactly n rounds one after another, each from a fresh 52-card deck and
\* fresh two-card hands, and then closes the connection.
AllCards(d, p, q) == {d[n] : n \in 1..Len(d)} \cup {p[n] : n \in 1..Len(p)}
                         \cup {q[n] : n \in 1..Len(q)}

C9_Step ==
    /\ (pc # "send_initial" /\ pc' = "send_initial") =>
          /\ pc = "rounds"
          /\ i < num_rounds
          /\ sent' = <<>>
          /\ Len(player_cards') = 2 /\ Len(dealer_cards') = 2 /\ Len(deck') = 48
          /\ AllCards(deck', player_cards', dealer_cards') = RANKS \X SUITS
    /\ i' # i => (pc = "returned" /\ i' = i + 1 /\ IsTerminal(LastSent))
    /\ (peer_open' /\ num_rounds >= 0 /\ conn_open /\ ~conn_open') => i = num_rounds
    /\ (pc = "rounds" /\ i = num_rounds /\ pc' # pc) => ~conn_open'

C9_Theorem == [][C9_Step]_vars

C9_Witness ==
    /\ pc = "closed"
    /\ peer_open
    /\ num_rounds = 2
    /\ i = 2

----------------------------------------------------------------------------
(* The decoders on their own: every decoder applied to a family of buffers *)
(* of right and wrong length, cookie and type tag.                          *)

CodecLens == {0} \cup {size + d : size \in {SIZE_OFFER, SIZE_REQUEST, SIZE_ACTION, SIZE_STATE},
                                  d \in (0 - MaxExtra)..MaxExtra}

\* the cookie, and the cookie with one byte changed
CodecCookies == {CookieBytes}
                \cup {[CookieBytes EXCEPT ![j] = (@ + d) % 256] : j \in 1..4, d \in {1, 128}}

CodecTypes == {MSG_TYPE_OFFER, MSG_TYPE_REQUEST, MSG_TYPE_PAYLOAD, 5}

\* what follows the type tag: a pattern repeated up to the buffer's length
CodecPatterns == {Hittt, Stand, <<0>>, <<1, 0, 7, 2>>, <<255>>}

Filled(pattern, n) == [j \in 1..n |-> pattern[((j - 1) % Len(pattern)) + 1]]

CodecBuffer(len, cookie, type, pattern) ==
    SubSeq(cookie \o <<type>> \o Filled(pattern, len), 1, len)

CodecBuffers == {CodecBuffer(len, c, t, p) :
                     len \in CodecLens, c \in CodecCookies, t \in CodecTypes,
                     p \in CodecPatterns}

InitCodec ==
    /\ pc = "codec"
    /\ num_rounds = -1
    /\ i = 0
    /\ deck = <<>>
    /\ player_cards = <<>>
    /\ dealer_cards = <<>>
    /\ k = 0
    /\ sent = <<>>
    /\ ended = "no"
    /\ conn_open = TRUE
    /\ peer_open = TRUE
    /\ buf \in CodecBuffers
    /\ res = NoResult
    /\ msg = NoMessage
    /\ last_data = NoData
    /\ request_data = NoData
    /\ ServerIdle

Decoded(kind, result) ==
    /\ pc = "codec"
    /\ res' = <<kind, result>>
    /\ UNCHANGED <<pc, num_rounds, i, deck, player_cards, dealer_cards, k, sent, ended,
                   conn_open, peer_open, buf, msg, last_data, request_data>>
    /\ UNCHANGED server_vars
    /\ UNCHANGED stream_vars

DecodeOffer == Decoded("offer", unpack_offer(buf))
DecodeRequest == Decoded("request", unpack_request(buf))
DecodeAction == Decoded("action", unpack_action(buf))
DecodeState == Decoded("state", unpack_game_state(buf))

NextCodec ==
    \/ DecodeOffer
    \/ DecodeRequest
    \/ DecodeAction
    \/ DecodeState

SpecCodec == InitCodec /\ [][NextCodec]_vars

\* the first four bytes are the magic cookie 0xabcddcba
HasCookie(b) == Len(b) >= 4 /\ b[1] = 171 /\ b[2] = 205 /\ b[3] = 220 /\ b[4] = 186
HasTag(b, t) == Len(b) >= 5 /\ b[5] = t
Rejected(r) == ~r.ok /\ DOMAIN r = {"ok", "err"}

MustReject(kind, size, tag) ==
    (res[1] = kind /\ (Len(buf) # size \/ ~HasCookie(buf) \/ ~HasTag(buf, tag)))
        => Rejected(res[2])

\* C10: each of the four decoders (Offer 39 bytes tag 2, Request 38 tag 3,
\* Action 10 tag 4, State 9 tag 4) raises an error and returns no message for
\* every buffer of another length, with other first four bytes than the magic
\* cookie, or with another type tag.
C10_Theorem ==
    /\ MustReject("offer", 39, 2)
    /\ MustReject("request", 38, 3)
    /\ MustReject("action", 10, 4)
    /\ MustReject("state", 9, 4)

\* an Offer-sized buffer with the right tag and one changed cookie byte was
\* handed to the Offer decoder and rejected
C10_Witness ==
    /\ res[1] = "offer"
    /\ Len(buf) = 39
    /\ HasTag(buf, 2)
    /\ ~HasCookie(buf)
    /\ Rejected(res[2])

\* the decoders also accept: a well-formed buffer of each kind is decoded
C10_WitnessAccepts ==
    /\ res[1] = "action"
    /\ res[2].ok
    /\ res[2].action = "Hit"

----------------------------------------------------------------------------
(* Encoding followed by decoding: a message of one of the four kinds is    *)
(* packed, and the decoders are applied to the packed buffer.              *)

\* 'a', e-acute (2 bytes), the euro sign (3 bytes), an emoji (4 bytes)
NameTails == {<<>>, <<233>>, <<8364>>, <<128512>>}
NameFillLens == {0, 1} \cup (NAME_LEN - 4)..(NAME_LEN + MaxNameOver)
Names == {[j \in 1..n |-> 97] \o t : n \in NameFillLens, t \in NameTails}

RoundTripMessages ==
    {[kind |-> "offer", port |-> p, name |-> nm] : p \in {0, 13122, 65535}, nm \in Names}
    \cup {[kind |-> "request", rounds |-> r, name |-> nm] : r \in {1, 2, 255}, nm \in Names}
    \cup {[kind |-> "action", action |-> a] : a \in {"Hit", "Stand"}}
    \cup {[kind |-> "state", status |-> st, rank |-> r, suit |-> su] :
              st \in 0..3, r \in RANKS, su \in SUITS}

InitRoundTrip ==
    /\ pc = "encode"
    /\ num_rounds = -1
    /\ i = 0
    /\ deck = <<>>
    /\ player_cards = <<>>
    /\ dealer_cards = <<>>
    /\ k = 0
    /\ sent = <<>>
    /\ ended = "no"
    /\ conn_open = TRUE
    /\ peer_open = TRUE
    /\ buf = <<>>
    /\ res = NoResult
    /\ msg \in RoundTripMessages
    /\ last_data = NoData
    /\ request_data = NoData
    /\ ServerIdle

Encoded(kind, packet) ==
    /\ pc = "encode"
    /\ msg.kind = kind
    /\ buf' = packet
    /\ pc' = "codec"
    /\ UNCHANGED <<num_rounds, i, deck, player_cards, dealer_cards, k, sent, ended,
                   conn_open, peer_open, res, msg, last_data, request_data>>
    /\ UNCHANGED server_vars
    /\ UNCHANGED stream_vars

EncodeOffer == Encoded("offer", pack_offer(msg.port, msg.name))
EncodeRequest == Encoded("request", pack_request(msg.name, msg.rounds))
EncodeAction == Encoded("action", pack_action(msg.action))
EncodeState == Encoded("state", pack_game_state(msg.status, msg.rank, msg.suit))

NextRoundTrip ==
    \/ EncodeOffer
    \/ EncodeRequest
    \/ EncodeAction
    \/ EncodeState
    \/ DecodeOffer
    \/ DecodeRequest
    \/ DecodeAction
    \/ DecodeState

SpecRoundTrip == InitRoundTrip /\ [][NextRoundTrip]_vars

\* the name a decoder must give back: the name itself, or for a name longer
\* than 32 bytes the text made of its first 32 bytes
NameBack(got, name) ==
    IF Len(encode_utf8(name)) <= 32 THEN got = name
    ELSE encode_utf8(got) = SubSeq(encode_utf8(name), 1, 32)

\* C11: decoding the encoding of a message gives back its field values, for
\* every kind and all valid values, names of 0, 31 and 32 bytes included; a
\* name longer than 32 bytes comes back truncated to its first 32 bytes.
C11_Claim ==
    res[1] = msg.kind =>
        /\ res[2].ok
        /\ msg.kind = "offer" => (res[2].port = msg.port /\ NameBack(res[2].name, msg.name))
        /\ msg.kind = "request" =>
              (res[2].rounds = msg.rounds /\ NameBack(res[2].name, msg.name))
        /\ msg.kind = "action" => res[2].action = msg.action
        /\ msg.kind = "state" =>
              (res[2].status = msg.status /\ res[2].rank = msg.rank
               /\ res[2].suit = msg.suit)

----------------------------------------------------------------------------
(* calculate_hand on its own: applied to every hand of up to MaxHand cards *)


InitHand ==
    /\ pc = "hand"
    /\ num_rounds = -1
    /\ i = 0
    /\ deck = <<>>
    /\ player_cards = <<>>
    /\ dealer_cards = <<>>
    /\ k = 0
    /\ sent = <<>>
    /\ ended = "no"
    /\ conn_open = TRUE
    /\ peer_open = TRUE
    /\ buf = <<>>
    /\ res = NoResult
    /\ msg = NoMessage
    /\ last_data = NoData
    /\ request_data = NoData
    /\ ServerIdle

\* the caller's hand grows by a card of any rank (the suit plays no part in
\* the value)
TakeCard ==
    /\ pc = "hand"
    /\ Len(player_cards) < MaxHand
    /\ \E r \in RANKS : player_cards' = Append(player_cards, <<r, Len(player_cards) % 4>>)
    /\ res' = NoResult
    /\ UNCHANGED <<pc, num_rounds, i, deck, dealer_cards, k, sent, ended,
                   conn_open, peer_open, buf, msg, last_data, request_data>>
    /\ UNCHANGED server_vars
    /\ UNCHANGED stream_vars

\* GameServer.calculate_hand(cards) is called on the hand
ServerCalculate ==
    /\ pc = "hand"
    /\ res' = <<"server", calculate_hand(player_cards)>>
    /\ UNCHANGED <<pc, num_rounds, i, deck, player_cards, dealer_cards, k, sent, ended,
                   conn_open, peer_open, buf, msg, last_data, request_data>>
    /\ UNCHANGED server_vars
    /\ UNCHANGED stream_vars

\* GameClient.calculate_hand 22-31: the for loop, every Ace counted 11
RECURSIVE ClientSum(_)
ClientSum(cards) ==
    IF cards = <<>> THEN 0
    ELSE LET r == Head(cards)
         IN  (IF r = 1 THEN 11 ELSE IF r >= 10 THEN 10 ELSE r) + ClientSum(Tail(cards))

RECURSIVE ClientAces(_)
ClientAces(cards) ==
    IF cards = <<>> THEN 0
    ELSE (IF Head(cards) = 1 THEN 1 ELSE 0) + ClientAces(Tail(cards))

\* GameClient.calculate_hand 34-36: demote aces while the value is above 21
RECURSIVE Demote(_, _)
Demote(value, aces) ==
    IF value > 21 /\ aces > 0 THEN Demote(value - 10, aces - 1) ELSE value

\* GameClient.calculate_hand(cards), cards being a list of ranks
client_calculate_hand_nodemote(cards) == ClientSum(cards)
client_calculate_hand(cards) == Demote(ClientSum(cards), ClientAces(cards))

\* the ranks of a hand, as the client keeps them
RanksOf(cards) == [n \in 1..Len(cards) |-> cards[n][1]]

\* GameClient.calculate_hand(cards) is called on the ranks of the hand
ClientCalculate ==
    /\ pc = "hand"
    /\ res' = <<"client", client_calculate_hand(RanksOf(player_cards))>>
    /\ UNCHANGED <<pc, num_rounds, i, deck, player_cards, dealer_cards, k, sent, ended,
                   conn_open, peer_open, buf, msg, last_data, request_data>>
    /\ UNCHANGED server_vars
    /\ UNCHANGED stream_vars

NextHand ==
    \/ TakeCard
    \/ ServerCalculate
    \/ ClientCalculate

SpecHand == InitHand /\ [][NextHand]_vars

\* the totals a hand can be counted as: each Ace 1 or 11, face cards 10,
\* every other card its rank
RECURSIVE TotalUnder(_, _)
TotalUnder(hand, f) ==
    IF Len(hand) = 0 THEN 0
    ELSE LET r == hand[Len(hand)][1]
             v == IF r = 1 THEN f[Len(hand)] ELSE IF r >= 11 THEN 10 ELSE r
         IN  v + TotalUnder(SubSeq(hand, 1, Len(hand) - 1), f)

Totals(hand) == {TotalUnder(hand, f) : f \in [1..Len(hand) -> {1, 11}]}
Largest(S) == CHOOSE x \in S : \A y \in S : y <= x
Smallest(S) == CHOOSE x \in S : \A y \in S : x <= y
BestTotal(hand) ==
    LET all == Totals(hand)
        good == {t \in all : t <= 21}
    IN  IF good # {} THEN Largest(good) ELSE Smallest(all)

\* the hand with the cards at positions j and j+1 exchanged
SwapAt(hand, j) == [hand EXCEPT ![j] = hand[j + 1], ![j + 1] = hand[j]]

\* C12: calculate_hand returns the largest total not above 21 obtainable by
\* counting each Ace as 1 or 11 (the smallest total when every one is above
\* 21), and exchanging two neighbouring cards of the hand (hence any
\* reordering) leaves the result unchanged.
C12_Theorem ==
    res[1] = "server" =>
        /\ res[2] = BestTotal(player_cards)
        /\ \A j \in 1..(Len(player_cards) - 1) :
               calculate_hand(SwapAt(player_cards, j)) = res[2]

\* Ace + Ace + 9 has been valued 21
C12_Witness ==
    /\ res = <<"server", 21>>
    /\ Len(player_cards) = 3
    /\ player_cards[1][1] = 1 /\ player_cards[2][1] = 1 /\ player_cards[3][1] = 9

\* King + Queen + 2 has been valued 22, Ace + King 21
C12_WitnessBust ==
    /\ res = <<"server", 22>>
    /\ Len(player_cards) = 3
    /\ player_cards[1][1] = 13 /\ player_cards[2][1] = 12 /\ player_cards[3][1] = 2

----------------------------------------------------------------------------
\* C13: throughout a round the player's hand, the dealer's hand and the deck
\* hold each of the 52 cards exactly once between them; a hand changes only by
\* appending the card popped from the deck; every round starts from a full
\* newly built deck.
RoundPositions == {"send_initial", "player_turn", "recv_action", "dealer", "returned"}

IsPartition(d, p, q) ==
    /\ Len(d) + Len(p) + Len(q) = 52
    /\ AllCards(d, p, q) = RANKS \X SUITS

C13_Step ==
    /\ pc' \in RoundPositions => IsPartition(deck', player_cards', dealer_cards')
    /\ (pc = "rounds" /\ pc' = "send_initial") =>
          (Len(player_cards') = 2 /\ Len(dealer_cards') = 2 /\ Len(deck') = 48)
    /\ (pc \in RoundPositions /\ pc' \in RoundPositions \cup {"closed"}) =>
          \/ UNCHANGED <<deck, player_cards, dealer_cards>>
          \/ /\ Len(deck) > 0
             /\ deck' = SubSeq(deck, 1, Len(deck) - 1)
             /\ \/ /\ player_cards' = Append(player_cards, deck[Len(deck)])
                   /\ dealer_cards' = dealer_cards
                \/ /\ dealer_cards' = Append(dealer_cards, deck[Len(deck)])
                   /\ player_cards' = player_cards

C13_Theorem == [][C13_Step]_vars

\* the second round of a session has ended with both hands grown
C13_Witness ==
    /\ pc = "returned"
    /\ i = 1
    /\ Len(player_cards) >= 3
    /\ Len(dealer_cards) >= 3
    /\ IsPartition(deck, player_cards, dealer_cards)

----------------------------------------------------------------------------
\* C14: once the read that awaits the player's decision has returned end of
\* stream, the server sends no further packet on the connection (no result
\* for that round) and goes on to no later round.
C14_Step ==
    last_data = <<>> => (Len(sent') <= Len(sent) /\ i' = i)

C14_Claim == [][C14_Step]_vars

\* an Action buffer that fails decoding by its length, cookie or type tag
FailsFraming(b) ==
    /\ b # NoData
    /\ b # <<>>
    /\ \/ Len(b) # 10
       \/ SubSeq(b, 1, 4) # <<171, 205, 220, 186>>
       \/ b[5] # 4

\* C15: once an Action buffer read in a round has failed decoding (wrong
\* length, cookie or type tag), the session is aborted: no result is computed
\* and sent for it and no further round is played.
C15_Step ==
    FailsFraming(last_data) => (Len(sent') <= Len(sent) /\ i' = i)

C15_Claim == [][C15_Step]_vars

----------------------------------------------------------------------------
\* the first buffer read on the connection is not a valid Request by its
\* length, cookie or type tag
BadRequest(b) ==
    /\ b # NoData
    /\ b # <<>>
    /\ \/ Len(b) # 38
       \/ SubSeq(b, 1, 4) # <<171, 205, 220, 186>>
       \/ b[5] # 3

\* C16: when the first buffer read on a connection is not a valid Request, the
\* server closes the connection at once: no round is run and no State packet
\* is sent.
C16_Theorem ==
    BadRequest(request_data) =>
        /\ pc = "closed"
        /\ ~conn_open
        /\ sent = <<>>
        /\ i = 0
        /\ num_rounds = -1
        /\ deck = <<>> /\ player_cards = <<>> /\ dealer_cards = <<>>

\* a Request-sized buffer with the cookie but another type tag was read and
\* the connection is closed
C16_Witness ==
    /\ BadRequest(request_data)
    /\ Len(request_data) = 38
    /\ SubSeq(request_data, 1, 4) = <<171, 205, 220, 186>>
    /\ ~conn_open

----------------------------------------------------------------------------
(* Discovery: GameClient.find_server listening for Offer datagrams *)

\* senders of datagrams (addr[0] of recvfrom)
Senders == {"10.0.0.1", "10.0.0.2"}

\* datagrams that can arrive on the discovery port: buffers of about the size
\* of an Offer, and well-formed Offers, with and without a server name
Datagrams ==
    {CodecBuffer(len, c, t, p) :
        len \in (SIZE_OFFER - MaxExtra)..(SIZE_OFFER + MaxExtra), c \in CodecCookies,
        t \in CodecTypes, p \in CodecPatterns}
    \cup {pack_offer(p, nm) : p \in {1024, 13122, 65535}, nm \in {<<>>, ClientName}}

InitDiscovery ==
    /\ pc = "listen"
    /\ num_rounds = -1
    /\ i = 0
    /\ deck = <<>>
    /\ player_cards = <<>>
    /\ dealer_cards = <<>>
    /\ k = 0
    /\ sent = <<>>
    /\ ended = "no"
    /\ conn_open = TRUE
    /\ peer_open = TRUE
    /\ buf = <<>>
    /\ res = NoResult
    /\ msg = NoMessage
    /\ last_data = NoData
    /\ request_data = NoData
    /\ ServerIdle

\* find_server 78-90: one iteration of the receive loop.  buf is data, msg
\* records the sender, res the value returned
ReceiveDatagram ==
    /\ pc = "listen"
    /\ \E data \in Datagrams, addr \in Senders :
         LET r == unpack_offer(data)
         IN  /\ buf' = data
             /\ msg' = [kind |-> "datagram", addr |-> addr]
             /\ IF r.ok /\ r.name # <<>>
                THEN \* 85-88: if server_name: return addr[0], server_port
                     /\ res' = <<"server", [ip |-> addr, port |-> r.port]>>
                     /\ pc' = "found"
                ELSE \* 89-90 continue, or server_name is empty
                     UNCHANGED <<res, pc>>
    /\ UNCHANGED <<num_rounds, i, deck, player_cards, dealer_cards, k, sent, ended,
                   conn_open, peer_open, last_data, request_data>>
    /\ UNCHANGED server_vars
    /\ UNCHANGED stream_vars

NextDiscovery ==
    \/ ReceiveDatagram

SpecDiscovery == InitDiscovery /\ [][NextDiscovery]_vars

\* C17: a datagram that fails Offer decoding is discarded and the client keeps
\* listening; the first datagram that decodes as a valid Offer ends the
\* listening and the sender's address is returned with the advertised port: no
\* valid Offer is skipped.
C17_Step ==
    pc = "listen" =>
        IF unpack_offer(buf').ok
        THEN /\ pc' = "found"
             /\ res' = <<"server", [ip |-> msg'.addr, port |-> buf'[6] * 256 + buf'[7]]>>
        ELSE /\ pc' = "listen"
             /\ res' = res

C17_Claim == [][C17_Step]_vars

----------------------------------------------------------------------------
(* The server: GameServer.start accepting connections, one handle_client   *)
(* thread per connection, and the broadcast_offers thread                  *)

\* connections accepted during one run of the server
MaxSessions == 2

\* self.server_name ("Team Dealer") and self.server_port (picked by the OS)
self_server_name == <<84, 101, 97, 109, 32, 68, 101, 97, 108, 101, 114>>
self_server_port == 50000

\* a thread that holds the processor: its locals are the session variables
Running == [pc |-> "running"]

\* handle_client(client_sock) at its first line
NewThread ==
    [pc |-> "handshake", num_rounds |-> -1, i |-> 0, deck |-> <<>>,
     player_cards |-> <<>>, dealer_cards |-> <<>>, k |-> 0, sent |-> <<>>,
     ended |-> "no", conn_open |-> TRUE, peer_open |-> TRUE, buf |-> <<>>,
     res |-> NoResult, msg |-> NoMessage, last_data |-> NoData,
     request_data |-> NoData]

\* the locals of the running handle_client / play_round frame
ThreadLocals_shareddeck ==
    [pc |-> pc, num_rounds |-> num_rounds, i |-> i, deck |-> <<>>,
     player_cards |-> player_cards, dealer_cards |-> dealer_cards, k |-> k,
     sent |-> sent, ended |-> ended, conn_open |-> conn_open,
     peer_open |-> peer_open, buf |-> buf, res |-> res, msg |-> msg,
     last_data |-> last_data, request_data |-> request_data]

ThreadLocals ==
    [pc |-> pc, num_rounds |-> num_rounds, i |-> i, deck |-> deck,
     player_cards |-> player_cards, dealer_cards |-> dealer_cards, k |-> k,
     sent |-> sent, ended |-> ended, conn_open |-> conn_open,
     peer_open |-> peer_open, buf |-> buf, res |-> res, msg |-> msg,
     last_data |-> last_data, request_data |-> request_data]

\* The server specification follows the client threads over one outcome of
\* random.shuffle: stride and offset of the permutation.
ServerShuffle == <<7, 3>>

InitServer ==
    /\ pc = "idle"
    /\ num_rounds = -1
    /\ i = 0
    /\ deck = <<>>
    /\ player_cards = <<>>
    /\ dealer_cards = <<>>
    /\ k = 0
    /\ sent = <<>>
    /\ ended = "no"
    /\ conn_open = TRUE
    /\ peer_open = TRUE
    /\ buf = <<>>
    /\ res = NoResult
    /\ msg = NoMessage
    /\ last_data = NoData
    /\ request_data = NoData
    /\ threads = <<>>
    /\ cur = 0
    /\ running = TRUE
    /\ offer = NoData
    /\ shuffles = [strides |-> {ServerShuffle[1]}, offsets |-> {ServerShuffle[2]}]
    /\ StreamIdle

\* start 54-64: accept() returns a connection and a thread is started on it
Accept ==
    /\ running
    /\ Len(threads) < MaxSessions
    /\ threads' = Append(threads, NewThread)
    /\ UNCHANGED <<pc, num_rounds, i, deck, player_cards, dealer_cards, k, sent, ended,
                   conn_open, peer_open, buf, res, msg, last_data, request_data,
                   cur, running, offer, shuffles>>
    /\ UNCHANGED stream_vars

\* the interpreter takes the processor from the running client thread and gives
\* it to client thread t
Switch ==
    \E t \in 1..Len(threads) :
        /\ t # cur
        /\ threads' = [j \in 1..Len(threads) |->
                          IF j = cur THEN ThreadLocals
                          ELSE IF j = t THEN Running ELSE threads[j]]
        /\ cur' = t
        /\ pc' = threads[t].pc
        /\ num_rounds' = threads[t].num_rounds
        /\ i' = threads[t].i
        /\ deck' = threads[t].deck
        /\ player_cards' = threads[t].player_cards
        /\ dealer_cards' = threads[t].dealer_cards
        /\ k' = threads[t].k
        /\ sent' = threads[t].sent
        /\ ended' = threads[t].ended
        /\ conn_open' = threads[t].conn_open
        /\ peer_open' = threads[t].peer_open
        /\ buf' = threads[t].buf
        /\ res' = threads[t].res
        /\ msg' = threads[t].msg
        /\ last_data' = threads[t].last_data
        /\ request_data' = threads[t].request_data
        /\ UNCHANGED <<running, offer, shuffles>>
        /\ UNCHANGED stream_vars

\* broadcast_offers 81-85: one iteration of the loop
Broadcast ==
    /\ running
    /\ offer' = pack_offer(self_server_port, self_server_name)
    /\ UNCHANGED <<pc, num_rounds, i, deck, player_cards, dealer_cards, k, sent, ended,
                   conn_open, peer_open, buf, res, msg, last_data, request_data,
                   threads, cur, running, shuffles>>
    /\ UNCHANGED stream_vars

\* The server specification follows these inputs per thread: a Request for one
\* round or one with a wrong cookie, and the Actions Hit, Stand and Hit with a
\* wrong cookie (and the end of stream).
ServerRequests == {pack_request(ClientName, 1), BadCookie(pack_request(ClientName, 1))}

ServerActions == {pack_action("Hit"), pack_action("Stand"), BadCookie(pack_action("Hit"))}

ServerScope ==
    /\ request_data \in {NoData, <<>>} \cup ServerRequests
    /\ last_data \in {NoData, <<>>} \cup ServerActions

NextServer ==
    \/ Accept
    \/ Switch
    \/ Broadcast
    \/ PeerClose
    \/ RecvRequest /\ ServerScope'
    \/ StartRound
    \/ SendInitial
    \/ PlayerLoop
    \/ RecvAction /\ ServerScope'
    \/ DealerDraw
    \/ Settle
    \/ LoopBack
    \/ Finish

SpecServer == InitServer /\ [][NextServer]_vars

\* what the claim calls the state of session t: its deck, hands, round counter
\* and connection, and where its thread stands
SessionState(t) ==
    IF t = cur
    THEN <<deck, player_cards, dealer_cards, i, num_rounds, conn_open, pc, sent>>
    ELSE <<threads[t].deck, threads[t].player_cards, threads[t].dealer_cards,
           threads[t].i, threads[t].num_rounds, threads[t].conn_open, threads[t].pc,
           threads[t].sent>>

\* a step taken by the running client thread (or by its peer)
SessionStep ==
    /\ cur # 0
    /\ cur' = cur
    /\ <<pc, deck, player_cards, dealer_cards, i, num_rounds, conn_open, peer_open,
         sent, k, last_data, request_data>>'
       # <<pc, deck, player_cards, dealer_cards, i, num_rounds, conn_open, peer_open,
           sent, k, last_data, request_data>>

\* C18: with several sessions served concurrently, a step of one session (a
\* disconnect, a protocol error or an exception included) leaves the deck, hands,
\* round counter and connection of every other session unchanged, and changes
\* neither the running flag, nor the set of accepted connections, nor what the
\* broadcaster sends.
C18_Step ==
    /\ \A t \in 1..Len(threads) :
          (cur' # cur \/ t # cur) => SessionState(t)' = SessionState(t)
    /\ SessionStep => /\ running' = running
                      /\ offer' = offer
                      /\ Len(threads') = Len(threads)

----------------------------------------------------------------------------
\* C19: the server accumulates stream data until a whole packet has arrived: what
\* it hands to unpack_request has the 38 bytes of a Request and what it hands to
\* unpack_action has the 10 bytes of an Action, however the stream is split into
\* segments; a partial read is never decoded as if it were a whole packet.
C19_Claim ==
    /\ (request_data # NoData /\ request_data # <<>>) => Len(request_data) = SIZE_REQUEST
    /\ (last_data # NoData /\ last_data # <<>>) => Len(last_data) = SIZE_ACTION

----------------------------------------------------------------------------
\* cards taken from the deck since the round began
Drawn == Len(player_cards) + Len(dealer_cards)

\* C20: no round draws from an empty deck: wherever the server is about to deal
\* a card (to the player on Hit, to the dealer) the deck is non-empty, every card
\* dealt came off the 52-card deck, and one round never draws more than 21 cards.
C20_Theorem ==
    (InRound \/ pc = "returned") =>
        /\ Drawn <= 21
        /\ Len(deck) = 52 - Drawn
        /\ Len(deck) > 0

\* a round in which the player and the dealer both drew beyond the four initial cards
C20_Witness ==
    /\ pc = "returned"
    /\ ended = "settled"
    /\ Len(player_cards) >= 4
    /\ Len(dealer_cards) >= 4

----------------------------------------------------------------------------
\* a correctly framed Action whose decision is neither "Hittt" nor "Stand"
OddDecision(b) ==
    /\ b # NoData
    /\ Len(b) = SIZE_ACTION
    /\ SubSeq(b, 1, 4) = <<171, 205, 220, 186>>
    /\ b[5] = 4
    /\ SubSeq(b, 6, 10) # <<72, 105, 116, 116, 116>>
    /\ SubSeq(b, 6, 10) # <<83, 116, 97, 110, 100>>

\* C21: a correctly framed Action whose decision is neither "Hittt" nor "Stand"
\* is handled as a Stand: the player's hand is unchanged, no card is dealt,
\* nothing is sent for it and the round goes on to the dealer's turn.
C21_Step ==
    (pc = "recv_action" /\ pc' # pc /\ OddDecision(last_data')) =>
        /\ pc' = "dealer"
        /\ player_cards' = player_cards
        /\ dealer_cards' = dealer_cards
        /\ deck' = deck
        /\ sent' = sent
        /\ conn_open' = conn_open
        /\ i' = i

C21_Theorem == [][C21_Step]_vars

\* after a Hit the player answered "Hello"; the dealer played and the result was sent
C21_Witness ==
    /\ pc = "returned"
    /\ ended = "settled"
    /\ OddDecision(last_data)
    /\ Utf8Valid(SubSeq(last_data, 6, 10))
    /\ Len(player_cards) = 3

\* the same with a decision that is not UTF-8
C21_WitnessNotText ==
    /\ pc = "returned"
    /\ ended = "settled"
    /\ OddDecision(last_data)
    /\ ~Utf8Valid(SubSeq(last_data, 6, 10))
    /\ Len(player_cards) = 3

----------------------------------------------------------------------------
(* Termination of play_round *)

\* a step of the handle_client thread
HandleClientStep ==
    \/ RecvRequest
    \/ StartRound
    \/ SendInitial
    \/ PlayerLoop
    \/ RecvAction
    \/ DealerDraw
    \/ Settle
    \/ LoopBack
    \/ Finish

\* Termination is followed over the shuffles with Stride up to MaxLiveStride and
\* Offset up to MaxLiveOffset.
MaxLiveStride == 7
MaxLiveOffset == 12

InitLive ==
    /\ pc = "handshake"
    /\ num_rounds = -1
    /\ i = 0
    /\ deck = <<>>
    /\ player_cards = <<>>
    /\ dealer_cards = <<>>
    /\ k = 0
    /\ sent = <<>>
    /\ ended = "no"
    /\ conn_open = TRUE
    /\ peer_open = TRUE
    /\ buf = <<>>
    /\ res = NoResult
    /\ msg = NoMessage
    /\ last_data = NoData
    /\ request_data = NoData
    /\ threads = <<>>
    /\ cur = 0
    /\ running = TRUE
    /\ offer = NoData
    /\ shuffles = [strides |-> {a \in 1..MaxLiveStride : Gcd(a, 52) = 1},
                   offsets |-> 0..MaxLiveOffset]
    /\ StreamIdle

\* The thread keeps running, and every conn.recv returns: the client answers each
\* awaited decision with an Action or closes the connection.
SpecLive == InitLive /\ [][Next]_vars /\ WF_vars(HandleClientStep)

\* play_round is over: it returned (202, 246), or a conn.sendall to the closed
\* peer raised
RoundOver == pc = "returned" \/ (pc = "closed" /\ ~peer_open)

\* C22: every round terminates: once play_round has dealt the cards it reaches
\* its end after finitely many steps, provided the client answers each awaited
\* decision with an Action or closes the connection.
C22_Theorem == (pc = "send_initial") ~> RoundOver

\* each Hit strictly raises the minimal total of the player's hand (aces as 1)
C22_HitRaises ==
    [][(player_cards # <<>> /\ Len(player_cards') > Len(player_cards))
          => BaseValue(player_cards') > BaseValue(player_cards)]_vars

\* a round that ended on a bust after the player drew three cards
C22_Witness ==
    /\ pc = "returned"
    /\ ended = "bust"
    /\ Len(player_cards) >= 5

----------------------------------------------------------------------------
\* C23: the client's score function (aces start at 11 and are demoted while the
\* total exceeds 21) returns for every hand of ranks 1..13 the value the
\* server's score function (aces start at 1 and are promoted while the total
\* stays at most 21) returns for it.
C23_Theorem ==
    res[1] = "client" => res[2] = calculate_hand(player_cards)

\* the client valued Ace + Ace + 9 as 21: one Ace demoted, one kept at 11
C23_Witness ==
    /\ res = <<"client", 21>>
    /\ RanksOf(player_cards) = <<1, 1, 9>>

\* the client valued a hand without an Ace above 21
C23_WitnessBust ==
    /\ res = <<"client", 25>>
    /\ RanksOf(player_cards) = <<13, 10, 5>>

----------------------------------------------------------------------------
(* One session together with its client: the Actions travel through the TCP *)
(* stream, where they wait until play_round reads them                      *)

\* Actions that can wait in the stream
MaxQueued == 2

InitStream ==
    /\ pc = "handshake"
    /\ num_rounds = -1
    /\ i = 0
    /\ deck = <<>>
    /\ player_cards = <<>>
    /\ dealer_cards = <<>>
    /\ k = 0
    /\ sent = <<>>
    /\ ended = "no"
    /\ conn_open = TRUE
    /\ peer_open = TRUE
    /\ buf = <<>>
    /\ res = NoResult
    /\ msg = NoMessage
    /\ last_data = NoData
    /\ request_data = NoData
    /\ threads = <<>>
    /\ cur = 0
    /\ running = TRUE
    /\ offer = NoData
    /\ shuffles = [strides |-> {ServerShuffle[1]}, offsets |-> {ServerShuffle[2]}]
    /\ StreamIdle

\* listen_to_server 136-213: the listener thread receives the next packet of the
\* server; a result packet ends the client's round (209-213)
ClientReceive ==
    /\ pc # "handshake"
    /\ IF seen.round = i
       THEN /\ seen.packets < Len(sent)
            /\ seen' = IF sent[seen.packets + 1][6] = STATUS_ACTIVE
                       THEN [seen EXCEPT !.packets = @ + 1]
                       ELSE [round |-> seen.round + 1, packets |-> 0]
       ELSE /\ seen.round < i
            /\ seen' = [round |-> seen.round + 1, packets |-> 0]
    /\ UNCHANGED <<pc, num_rounds, i, deck, player_cards, dealer_cards, k, sent, ended,
                   conn_open, peer_open, buf, res, msg, last_data, request_data,
                   inbox, applied>>
    /\ UNCHANGED server_vars

\* user_input_loop 231-247: the user types 1 or 2 and the Action is sent, marked
\* here with what the client had received when it sent it
ClientSend ==
    /\ pc # "handshake"
    /\ conn_open
    /\ Len(inbox) < MaxQueued
    /\ \E action \in {"Hit", "Stand"} :
         inbox' = Append(inbox, [data |-> pack_action(action), round |-> seen.round,
                                 packets |-> seen.packets])
    /\ UNCHANGED <<pc, num_rounds, i, deck, player_cards, dealer_cards, k, sent, ended,
                   conn_open, peer_open, buf, res, msg, last_data, request_data,
                   seen, applied>>
    /\ UNCHANGED server_vars

\* play_round 185-213: conn.recv(10) returns the oldest Action of the stream
RecvQueued ==
    /\ inbox # <<>>
    /\ ReadAction({Head(inbox).data})
    /\ inbox' = Tail(inbox)
    /\ applied' = [kind |-> "action", read_in |-> i, sent_in |-> Head(inbox).round,
                   after |-> Head(inbox).packets]
    /\ UNCHANGED seen

NextStream ==
    \/ RecvRequest
    \/ StartRound
    \/ SendInitial
    \/ PlayerLoop
    \/ RecvQueued
    \/ DealerDraw
    \/ Settle
    \/ LoopBack
    \/ Finish
    \/ ClientReceive
    \/ ClientSend

SpecStream == InitStream /\ [][NextStream]_vars

\* C24: every Action the server consumes as the decision of round k was sent by
\* the client after it had received the cards dealt in round k: an Action sent
\* while the server was not awaiting a decision is never applied as a decision
\* of a later round.
C24_Claim ==
    applied # NoMessage =>
        /\ applied.sent_in = applied.read_in
        /\ applied.after >= 2

====
